---- MODULE Spec2Model ----
(***************************************************************************)
(* Model of api/download.js: the HTTP handler that fetches an HLS          *)
(* manifest, writes an ffmpeg concat list into a shared temp directory and *)
(* pipes ffmpeg's output to the response.                                  *)
(*                                                                         *)
(* JavaScript strings are sequences of one-character strings.  A handler   *)
(* runs synchronously between its await points: `cur` holds the request    *)
(* whose synchronous code is executing, and no other request or ffmpeg     *)
(* callback runs while it is non-empty.  The wall clock may tick anywhere. *)
(* File-system calls either take effect completely or throw with no        *)
(* effect; unlinkSync of an existing file succeeds.                        *)
(***************************************************************************)
EXTENDS Integers, Sequences, FiniteSets, TLC

VARIABLES
    now,               \* value Date.now() returns
    cur,               \* {} or {r}: the request running synchronous code
    dirExists,         \* existsSync(tempDir)
    fs,                \* files of tempDir: name |-> [content, owner]
    pc,                \* position of each request's handler
    url,               \* validated url of the request
    segments,          \* parsedManifest.segments
    outputFile,        \* <<>> or <<"lecture", stamp>>
    segmentsListFile,  \* <<>> or <<"segments", stamp>>
    segmentsList,      \* text built for the concat list
    error,             \* error received by the catch block
    res,               \* the response object
    promise,           \* state of the promise the handler returned
    invoked,           \* the ffmpeg command of the request was started
    req                \* a request given in advance (request validation only)

vars == <<now, cur, dirExists, fs, pc, url, segments, outputFile,
          segmentsListFile, segmentsList, error, res, promise, invoked, req>>

(* ------------------------------ bounds -------------------------------- *)
NumReqs == 2
MaxClock == 1
MaxSegs == 2

Reqs == 1..NumReqs

(* ------------------------------ strings ------------------------------- *)
HttpPrefix == <<"h","t","t","p">>
M3u8Ext == <<".","m","3","u","8">>
FilePrefix == <<"f","i","l","e"," ","'">>
Quote == <<"'">>
Newline == "\n"
UrlShort == <<"h","t","t","p",":","/","/","c","/","p","/","m",".","m","3","u","8">>
UrlExample == <<"h","t","t","p","s",":","/","/","c","d","n",".","e","x","a","m","p","l","e",".","c","o","m","/","p","a","t","h","/","m","a","s","t","e","r",".","m","3","u","8">>
UrlNoSlash == <<"m",".","m","3","u","8">>
UrlMp4 == <<"h","t","t","p",":","/","/","c","/","v",".","m","p","4">>
UriSeg0 == <<"s","e","g","0",".","t","s">>
UriAbs == <<"h","t","t","p",":","/","/","d","/","b",".","t","s">>
UriHttpRel == <<"h","t","t","p","_","x",".","t","s">>
UriFtp == <<"f","t","p",":","/","/","d","/","c",".","t","s">>

(* String.prototype.includes *)
Includes(s, p) ==
    \E i \in 1..(Len(s) - Len(p) + 1) : SubSeq(s, i, i + Len(p) - 1) = p

(* String.prototype.startsWith *)
StartsWith(s, p) == Len(p) =< Len(s) /\ SubSeq(s, 1, Len(p)) = p

(* String.prototype.lastIndexOf for a one-character needle: 0-based, -1 if absent *)
LastIndexOf(s, c) ==
    LET I == {i \in 1..Len(s) : s[i] = c}
    IN  IF I = {} THEN -1 ELSE (CHOOSE i \in I : \A j \in I : j =< i) - 1

(* String.prototype.substring(a, b): 0-based, b exclusive *)
Substring(s, a, b) == SubSeq(s, a + 1, b)

(* Array.prototype.join *)
RECURSIVE Join(_, _)
Join(lines, sep) ==
    IF Len(lines) = 0 THEN <<>>
    ELSE IF Len(lines) = 1 THEN lines[1]
    ELSE lines[1] \o <<sep>> \o Join(Tail(lines), sep)

(* ------------------------- segment list builder ----------------------- *)
(* const baseUrl = url.substring(0, url.lastIndexOf('/') + 1) *)
BaseUrl(u) == Substring(u, 0, LastIndexOf(u, "/") + 1)

(* the body of the map callback up to the return *)
SegmentUrl(baseUrl, segment) ==
    IF ~StartsWith(segment.uri, HttpPrefix) THEN baseUrl \o segment.uri
    ELSE segment.uri

(* return `file '${segmentUrl}'` *)
SegmentLine(baseUrl, segment) == FilePrefix \o SegmentUrl(baseUrl, segment) \o Quote

(* a segment list that drops repeated lines *)
RECURSIVE DedupLines(_)
DedupLines(ls) ==
    IF Len(ls) = 0 THEN <<>>
    ELSE LET rest == DedupLines(SubSeq(ls, 1, Len(ls) - 1))
             l == ls[Len(ls)]
         IN  IF \E i \in 1..Len(rest) : rest[i] = l THEN rest ELSE Append(rest, l)

SegmentsListDedup(u, segs) ==
    Join(DedupLines([i \in 1..Len(segs) |-> SegmentLine(BaseUrl(u), segs[i])]), Newline)

(* parsedManifest.segments.map(...).join('\n') *)
SegmentsList(u, segs) ==
    Join([i \in 1..Len(segs) |-> SegmentLine(BaseUrl(u), segs[i])], Newline)

(* ------------------------------ inputs -------------------------------- *)
Methods == {"GET", "POST", "OPTIONS", "PUT"}

(* JavaScript values a url parameter can hold *)
Undefined == [t |-> "undefined"]
NumberValue == [t |-> "number"]
Str(v) == [t |-> "string", v |-> v]

QueryValues == {Undefined, Str(<<>>), Str(UrlMp4), Str(UrlShort)}
BodyValues == QueryValues \cup {NumberValue}

SegUris == {UriSeg0}
SeqsUpTo(S, n) == UNION {[1..k -> S] : k \in 0..n}
(* parsedManifest.segments: absent, or an array of segment descriptors *)
Arr(v) == [t |-> "array", v |-> v]
Manifests == {Arr(m) : m \in SeqsUpTo({[uri |-> u] : u \in SegUris}, MaxSegs)}

(* upstream HTTP status of a failed fetch; <<>> is a network-level failure *)
FetchFailures == {<<404>>, <<403>>, <<500>>, <<>>}

(* ----------------------------- response -------------------------------- *)
NewResponse ==
    [statusCode |-> 200, cors |-> FALSE, contentType |-> "", disposition |-> "",
     body |-> "none", fields |-> {}, headersSent |-> FALSE, finished |-> FALSE,
     sends |-> 0]

(* the four res.setHeader('Access-Control-...') calls *)
SetCors(rs) == [rs EXCEPT !.cors = TRUE]

(* res.status(code).json(obj) *)
Json(rs, code, flds) ==
    [rs EXCEPT !.statusCode = code, !.contentType = "application/json",
               !.body = "json", !.fields = flds, !.headersSent = TRUE,
               !.finished = TRUE, !.sends = @ + 1]

(* res.status(code).end() *)
EndEmpty(rs, code) ==
    [rs EXCEPT !.statusCode = code, !.body = "empty", !.headersSent = TRUE,
               !.finished = TRUE, !.sends = @ + 1]

(* res.setHeader('Content-Type', ...); res.setHeader('Content-Disposition', ...): *)
(* the generated file name inside the header value is not represented          *)
StreamHeaders(rs) ==
    [rs EXCEPT !.contentType = "video/mp4", !.disposition = "attachment"]

(* output written by the pipe: the status line and headers go out *)
PipeChunk(rs) == [rs EXCEPT !.headersSent = TRUE, !.body = "stream"]

(* the pipe ends the response (pipe option end: true) *)
PipeEnd(rs) ==
    [rs EXCEPT !.headersSent = TRUE, !.finished = TRUE, !.sends = @ + 1,
               !.body = IF @ = "none" THEN "empty" ELSE @]

(* ----------------------------- catch block ----------------------------- *)
NoError == [thrown |-> FALSE, response |-> <<>>]
Thrown(resp) == [thrown |-> TRUE, response |-> resp]

(* a catch block that reports every upstream status as 500 except 404 *)
CatchStatusNo403(err) ==
    IF err.response # <<>> /\ err.response[1] = 404 THEN 404 ELSE 500

(* status chosen by the catch block *)
CatchStatus(err) ==
    IF err.response # <<>> /\ err.response[1] = 404 THEN 404
    ELSE IF err.response # <<>> /\ err.response[1] = 403 THEN 403
    ELSE 500

CatchFields(err) ==
    IF CatchStatus(err) = 500 THEN {"error", "message", "tips"} ELSE {"error"}

Catch(rs, err) == Json(rs, CatchStatus(err), CatchFields(err))

(* --------------------------- file system ------------------------------- *)
ExistsSync(files, name) == name \in DOMAIN files

WriteFileSync(files, name, content, r) ==
    [n \in DOMAIN files \cup {name} |->
        IF n = name THEN [content |-> content, owner |-> r] ELSE files[n]]

UnlinkSync(files, name) == [n \in DOMAIN files \ {name} |-> files[n]]

(* a cleanup that forgets the concat list *)
CleanupOutputOnly(files, r) ==
    IF ExistsSync(files, outputFile[r]) THEN UnlinkSync(files, outputFile[r]) ELSE files

(* the try block of the 'error' and 'end' handlers *)
Cleanup(files, r) ==
    LET f1 == IF ExistsSync(files, segmentsListFile[r])
              THEN UnlinkSync(files, segmentsListFile[r]) ELSE files
    IN  IF ExistsSync(f1, outputFile[r]) THEN UnlinkSync(f1, outputFile[r]) ELSE f1

(* if (!parsedManifest.segments || parsedManifest.segments.length === 0) *)
NoSegmentsAbsentOnly(segs) == segs.t = "undefined"

NoSegments(segs) == segs.t = "undefined" \/ Len(segs.v) = 0

NoRequest == [method |-> "", query |-> Undefined, body |-> Undefined]

(* ------------------------------ initial -------------------------------- *)
Init ==
    /\ now = 0
    /\ cur = {}
    /\ dirExists \in BOOLEAN
    /\ fs = <<>>
    /\ pc = [r \in Reqs |-> "init"]
    /\ url = [r \in Reqs |-> <<>>]
    /\ segments = [r \in Reqs |-> <<>>]
    /\ outputFile = [r \in Reqs |-> <<>>]
    /\ segmentsListFile = [r \in Reqs |-> <<>>]
    /\ segmentsList = [r \in Reqs |-> <<>>]
    /\ error = [r \in Reqs |-> NoError]
    /\ res = [r \in Reqs |-> NewResponse]
    /\ promise = [r \in Reqs |-> "pending"]
    /\ invoked = [r \in Reqs |-> FALSE]
    /\ req = [r \in Reqs |-> NoRequest]

(* the handler returns or throws into the catch block: its locals are gone *)
Finish(r, where, rs, err, outcome) ==
    /\ pc' = [pc EXCEPT ![r] = where]
    /\ res' = [res EXCEPT ![r] = rs]
    /\ error' = [error EXCEPT ![r] = err]
    /\ promise' = [promise EXCEPT ![r] = outcome]
    /\ url' = [url EXCEPT ![r] = <<>>]
    /\ segments' = [segments EXCEPT ![r] = <<>>]
    /\ segmentsList' = [segmentsList EXCEPT ![r] = <<>>]
    /\ outputFile' = [outputFile EXCEPT ![r] = <<>>]
    /\ cur' = {}

(* ------------------------------ actions -------------------------------- *)
(* the clock advances *)
Tick ==
    /\ now < MaxClock
    /\ now' = now + 1
    /\ UNCHANGED <<cur, dirExists, fs, pc, url, segments, outputFile,
                   segmentsListFile, segmentsList, error, res, promise,
                   invoked, req>>

(* lines 10-53: CORS headers, method and url validation, axios.get issued *)
Handle(r, method, query, body) ==
    LET rs == SetCors(res[r])
        u == IF method = "POST" THEN body ELSE query
    IN
    /\ UNCHANGED <<now, dirExists, fs, segmentsListFile, invoked>>
    /\ IF method = "OPTIONS"
         THEN Finish(r, "options", EndEmpty(rs, 200), NoError, "resolved")
       ELSE IF method # "POST" /\ method # "GET"
         THEN Finish(r, "method", Json(rs, 405, {"error"}), NoError, "resolved")
       ELSE IF u = Undefined \/ u = Str(<<>>)
         THEN Finish(r, "missing", Json(rs, 400, {"error", "usage", "example"}),
                     NoError, "resolved")
       ELSE IF u.t # "string"
         \* url.includes is not a function: TypeError, caught at line 131
         THEN Finish(r, "typeerror", Catch(rs, Thrown(<<>>)), Thrown(<<>>), "resolved")
       ELSE IF ~Includes(u.v, M3u8Ext)
         THEN Finish(r, "invalid", Json(rs, 400, {"error"}), NoError, "resolved")
       ELSE /\ pc' = [pc EXCEPT ![r] = "fetching"]
            /\ url' = [url EXCEPT ![r] = u.v]
            /\ res' = [res EXCEPT ![r] = rs]
            /\ UNCHANGED <<cur, segments, segmentsList, outputFile, error, promise>>

Receive(r) ==
    /\ cur = {}
    /\ pc[r] = "init"
    /\ \E method \in Methods, query \in QueryValues, body \in BodyValues :
          Handle(r, method, query, body)
    /\ UNCHANGED req

(* line 53: axios.get rejects; the catch block answers *)
FetchReject(r) ==
    /\ cur = {}
    /\ pc[r] = "fetching"
    /\ \E st \in FetchFailures :
          Finish(r, "fetcherr", Catch(res[r], Thrown(st)), Thrown(st), "resolved")
    /\ UNCHANGED <<now, dirExists, fs, segmentsListFile, invoked, req>>

(* lines 53-54: axios.get resolves and the handler resumes *)
FetchResolve(r) ==
    /\ cur = {}
    /\ pc[r] = "fetching"
    /\ pc' = [pc EXCEPT ![r] = "parse"]
    /\ cur' = {r}
    /\ UNCHANGED <<now, dirExists, fs, url, segments, outputFile,
                   segmentsListFile, segmentsList, error, res, promise,
                   invoked, req>>

(* lines 57-65: the parser throws, or yields segments that are checked *)
Parse(r) ==
    /\ cur = {r}
    /\ pc[r] = "parse"
    /\ UNCHANGED <<now, dirExists, fs, segmentsListFile, invoked, req>>
    /\ \/ Finish(r, "parseerr", Catch(res[r], Thrown(<<>>)), Thrown(<<>>), "resolved")
       \/ \E segs \in Manifests \cup {Undefined} :
             IF NoSegments(segs)
             THEN Finish(r, "nosegs", Json(res[r], 400, {"error"}), NoError, "resolved")
             ELSE /\ segments' = [segments EXCEPT ![r] = segs.v]
                  /\ pc' = [pc EXCEPT ![r] = "tempdir"]
                  /\ UNCHANGED <<cur, url, segmentsList, outputFile, error, res, promise>>

(* a handler that sets the streaming headers before the concat list is written *)
MakeTempDirHeadersFirst(r) ==
    /\ cur = {r}
    /\ pc[r] = "tempdir"
    /\ UNCHANGED <<now, fs, segmentsListFile, invoked, req>>
    /\ \/ /\ ~dirExists
          /\ Finish(r, "mkdirerr", Catch(res[r], Thrown(<<>>)), Thrown(<<>>), "resolved")
          /\ UNCHANGED dirExists
       \/ /\ dirExists' = TRUE
          /\ outputFile' = [outputFile EXCEPT ![r] = <<"lecture", now>>]
          /\ res' = [res EXCEPT ![r] = StreamHeaders(@)]
          /\ pc' = [pc EXCEPT ![r] = "build"]
          /\ UNCHANGED <<cur, url, segments, segmentsList, error, promise>>

(* lines 71-76: the temp directory is created if absent; outputFile is named *)
MakeTempDir(r) ==
    /\ cur = {r}
    /\ pc[r] = "tempdir"
    /\ UNCHANGED <<now, fs, segmentsListFile, invoked, req>>
    /\ \/ /\ ~dirExists           \* mkdirSync throws
          /\ Finish(r, "mkdirerr", Catch(res[r], Thrown(<<>>)), Thrown(<<>>), "resolved")
          /\ UNCHANGED dirExists
       \/ /\ dirExists' = TRUE
          /\ outputFile' = [outputFile EXCEPT ![r] = <<"lecture", now>>]
          /\ pc' = [pc EXCEPT ![r] = "build"]
          /\ UNCHANGED <<cur, url, segments, segmentsList, error, res, promise>>

(* lines 77-91: segmentsListFile is named, the list is built and written *)
BuildAndWrite(r) ==
    LET name == <<"segments", now>>
        text == SegmentsList(url[r], segments[r])
    IN
    /\ cur = {r}
    /\ pc[r] = "build"
    /\ segmentsListFile' = [segmentsListFile EXCEPT ![r] = name]
    /\ UNCHANGED <<now, dirExists, invoked, req>>
    /\ \/ /\ Finish(r, "writeerr", Catch(res[r], Thrown(<<>>)), Thrown(<<>>), "resolved")
          /\ UNCHANGED fs     \* writeFileSync throws
       \/ /\ fs' = WriteFileSync(fs, name, text, r)
          /\ segmentsList' = [segmentsList EXCEPT ![r] = text]
          /\ pc' = [pc EXCEPT ![r] = "headers"]
          /\ UNCHANGED <<cur, url, segments, outputFile, error, res, promise>>

(* lines 94-95 *)
SetStreamHeaders(r) ==
    /\ cur = {r}
    /\ pc[r] = "headers"
    /\ res' = [res EXCEPT ![r] = StreamHeaders(@)]
    /\ pc' = [pc EXCEPT ![r] = "spawn"]
    /\ UNCHANGED <<now, cur, dirExists, fs, url, segments, outputFile,
                   segmentsListFile, segmentsList, error, promise, invoked, req>>

(* lines 98-129: the promise executor builds the command and calls pipe(res); *)
(* a throw inside the executor rejects the returned promise, which the       *)
(* enclosing try does not await                                              *)
StartFfmpeg(r) ==
    /\ cur = {r}
    /\ pc[r] = "spawn"
    /\ invoked' = [invoked EXCEPT ![r] = TRUE]
    /\ UNCHANGED <<now, dirExists, fs, segmentsListFile, req>>
    /\ \/ Finish(r, "spawnerr", res[r], NoError, "rejected")
       \/ /\ pc' = [pc EXCEPT ![r] = "running"]
          /\ cur' = {}
          /\ UNCHANGED <<url, segments, segmentsList, outputFile, error, res, promise>>

(* lines 110-118: terminal failure.  piped: output had reached the response  *)
(* through the pipe of line 128 before the failure; ended: ffmpeg's closing   *)
(* output ends the response, which it does not when no process was running   *)
FfmpegError(r) ==
    /\ cur = {}
    /\ pc[r] = "running"
    /\ fs' = Cleanup(fs, r)
    /\ \E piped \in BOOLEAN :
       \E ended \in (IF piped THEN {TRUE} ELSE BOOLEAN) :
          LET rs == IF piped THEN PipeChunk(res[r]) ELSE res[r]
          IN  Finish(r, "fferror", IF ended THEN PipeEnd(rs) ELSE rs,
                     NoError, "rejected")
    /\ UNCHANGED <<now, dirExists, segmentsListFile, invoked, req>>

(* lines 119-127: terminal success; the pipe ends the response *)
FfmpegEnd(r) ==
    /\ cur = {}
    /\ pc[r] = "running"
    /\ fs' = Cleanup(fs, r)
    /\ \E piped \in BOOLEAN :
          Finish(r, "ffend", PipeEnd(IF piped THEN PipeChunk(res[r]) ELSE res[r]),
                 NoError, "resolved")
    /\ UNCHANGED <<now, dirExists, segmentsListFile, invoked, req>>

Next ==
    \/ Tick
    \/ \E r \in Reqs : Receive(r)
    \/ \E r \in Reqs : FetchReject(r)
    \/ \E r \in Reqs : FetchResolve(r)
    \/ \E r \in Reqs : Parse(r)
    \/ \E r \in Reqs : MakeTempDir(r)
    \/ \E r \in Reqs : BuildAndWrite(r)
    \/ \E r \in Reqs : SetStreamHeaders(r)
    \/ \E r \in Reqs : StartFfmpeg(r)
    \/ \E r \in Reqs : FfmpegError(r)
    \/ \E r \in Reqs : FfmpegEnd(r)

Spec == Init /\ [][Next]_vars

(* --------------------- request validation alone ------------------------ *)
Requests == [method : Methods, query : QueryValues, body : BodyValues]

InitValidate ==
    /\ now = 0
    /\ cur = {}
    /\ dirExists \in BOOLEAN
    /\ fs = <<>>
    /\ pc = [r \in Reqs |-> "init"]
    /\ url = [r \in Reqs |-> <<>>]
    /\ segments = [r \in Reqs |-> <<>>]
    /\ outputFile = [r \in Reqs |-> <<>>]
    /\ segmentsListFile = [r \in Reqs |-> <<>>]
    /\ segmentsList = [r \in Reqs |-> <<>>]
    /\ error = [r \in Reqs |-> NoError]
    /\ res = [r \in Reqs |-> NewResponse]
    /\ promise = [r \in Reqs |-> "pending"]
    /\ invoked = [r \in Reqs |-> FALSE]
    /\ \E q \in Requests : req = [r \in Reqs |-> IF r = 1 THEN q ELSE NoRequest]

(* the handler is called with the request given in req *)
ReceiveGiven(r) ==
    /\ cur = {}
    /\ pc[r] = "init"
    /\ req[r] # NoRequest
    /\ Handle(r, req[r].method, req[r].query, req[r].body)
    /\ UNCHANGED req

NextValidate == \E r \in Reqs : ReceiveGiven(r)

SpecValidate == InitValidate /\ [][NextValidate]_vars

(* ---------------------- segment list builder alone --------------------- *)
BuildUrls == {UrlShort, UrlExample, UrlNoSlash}
BuildUris == {UriSeg0, UriAbs, UriHttpRel, UriFtp}
BuildManifests == SeqsUpTo({[uri |-> u] : u \in BuildUris}, MaxSegs) \ {<<>>}

(* request 1 has passed the empty-segments check and named outputFile *)
InitBuild ==
    /\ now = 0
    /\ cur = {1}
    /\ dirExists = TRUE
    /\ fs = <<>>
    /\ pc = [r \in Reqs |-> IF r = 1 THEN "build" ELSE "init"]
    /\ \E u \in BuildUrls : url = [r \in Reqs |-> IF r = 1 THEN u ELSE <<>>]
    /\ \E m \in BuildManifests : segments = [r \in Reqs |-> IF r = 1 THEN m ELSE <<>>]
    /\ outputFile = [r \in Reqs |-> IF r = 1 THEN <<"lecture", 0>> ELSE <<>>]
    /\ segmentsListFile = [r \in Reqs |-> <<>>]
    /\ segmentsList = [r \in Reqs |-> <<>>]
    /\ error = [r \in Reqs |-> NoError]
    /\ res = [r \in Reqs |-> IF r = 1 THEN SetCors(NewResponse) ELSE NewResponse]
    /\ promise = [r \in Reqs |-> "pending"]
    /\ invoked = [r \in Reqs |-> FALSE]
    /\ req = [r \in Reqs |-> NoRequest]

NextBuild == \E r \in Reqs : BuildAndWrite(r)

SpecBuild == InitBuild /\ [][NextBuild]_vars

(* ------------------------------- claims -------------------------------- *)
OwnedFiles(r) == {n \in DOMAIN fs : fs[n].owner = r}

(* C1: when ffmpeg reports its terminal failure before the response headers
   were sent, the handler answers exactly once with status 500 and its
   promise is not rejected. *)
TranscoderFailureIs500 ==
    \A r \in Reqs :
        (pc[r] = "fferror" /\ ~res[r].headersSent) =>
            /\ res[r].statusCode = 500
            /\ res[r].finished
            /\ res[r].sends = 1
            /\ promise[r] # "rejected"

FailureExits ==
    {"fetcherr", "parseerr", "nosegs", "mkdirerr", "writeerr", "spawnerr", "fferror"}

(* C2: once a handler has finished on any failure path, no temp file created
   by its request exists. *)
CleanupOnEveryFailure ==
    \A r \in Reqs : pc[r] \in FailureExits => OwnedFiles(r) = {}

(* C3: temp-file isolation: while a request's transcoder runs, the concat
   list under its name is the one it wrote itself, untouched by and not
   shared with any other request. *)
Isolation ==
    \A r \in Reqs :
        pc[r] = "running" =>
            /\ ExistsSync(fs, segmentsListFile[r])
            /\ fs[segmentsListFile[r]].owner = r
            /\ fs[segmentsListFile[r]].content = segmentsList[r]
            /\ \A q \in Reqs \ {r} :
                  pc[q] \in {"headers", "spawn", "running"} =>
                      segmentsListFile[q] # segmentsListFile[r]

UniqueNames(r) ==
    /\ segmentsListFile[r] # <<>>
    /\ \A q \in Reqs \ {r} : segmentsListFile[q] # segmentsListFile[r]

(* C4: for a request whose file names no other request uses, the concat list
   exists with the request's text from the write until the terminal success
   notification, and after that notification no file of the request is left;
   the output placeholder is never created. *)
SuccessCleanup ==
    /\ \A n \in DOMAIN fs : n[1] # "lecture"
    /\ \A r \in Reqs :
          UniqueNames(r) =>
             /\ pc[r] \in {"headers", "spawn", "running"} =>
                   /\ ExistsSync(fs, segmentsListFile[r])
                   /\ fs[segmentsListFile[r]] = [content |-> segmentsList[r], owner |-> r]
             /\ pc[r] = "ffend" =>
                   /\ ~ExistsSync(fs, segmentsListFile[r])
                   /\ OwnedFiles(r) = {}

SuccessCleanupWitness ==
    \E r \in Reqs :
        /\ UniqueNames(r)
        /\ pc[r] = "ffend"
        /\ \E q \in Reqs \ {r} : pc[q] = "running"

ExpectedFetchStatus(resp) ==
    CASE resp = <<404>> -> 404
      [] resp = <<403>> -> 403
      [] OTHER -> 500

(* C5: a failed manifest fetch is answered exactly once, with 404 for an
   upstream 404, 403 for an upstream 403 and 500 otherwise; no concat list is
   written and ffmpeg is not started. *)
FetchFailureClassified ==
    \A r \in Reqs :
        pc[r] = "fetcherr" =>
            /\ res[r].statusCode = ExpectedFetchStatus(error[r].response)
            /\ res[r].body = "json"
            /\ res[r].finished
            /\ res[r].sends = 1
            /\ segmentsListFile[r] = <<>>
            /\ OwnedFiles(r) = {}
            /\ ~invoked[r]

FetchFailureWitness ==
    /\ \E r \in Reqs : pc[r] = "fetcherr" /\ error[r].response = <<403>>
                       /\ res[r].statusCode = 403
    /\ \E r \in Reqs : pc[r] = "fetcherr" /\ error[r].response = <<>>
                       /\ res[r].statusCode = 500

NotStarted(r) ==
    /\ pc[r] # "fetching"
    /\ segmentsListFile[r] = <<>>
    /\ OwnedFiles(r) = {}

(* C6: before any fetch, OPTIONS gives 200 with an empty body, a method other
   than GET, POST, OPTIONS gives 405, an absent url gives 400 with error and
   usage fields, and a url that does not contain .m3u8 gives 400; none of
   these issues a fetch or creates a file. *)
PreFetchClassification ==
    \A r \in Reqs :
        (req[r] # NoRequest /\ pc[r] # "init") =>
            LET m == req[r].method
                u == IF m = "POST" THEN req[r].body ELSE req[r].query
                contains == u.t = "string" /\ Includes(u.v, M3u8Ext)
            IN  IF m = "OPTIONS"
                  THEN res[r].statusCode = 200 /\ res[r].body = "empty" /\ NotStarted(r)
                ELSE IF m \notin {"GET", "POST"}
                  THEN res[r].statusCode = 405 /\ NotStarted(r)
                ELSE IF u = Undefined
                  THEN /\ res[r].statusCode = 400
                       /\ {"error", "usage"} \subseteq res[r].fields
                       /\ NotStarted(r)
                ELSE IF ~contains
                  THEN res[r].statusCode = 400 /\ NotStarted(r)
                ELSE TRUE

(* C7: a manifest with no segments is answered with 400 and the handler goes
   no further: no request passes the check with zero segments, no concat list
   is written, the streaming headers are not set and ffmpeg is not started. *)
EmptyManifestRejected ==
    \A r \in Reqs :
        /\ pc[r] \in {"tempdir", "build", "headers", "spawn", "running"} =>
              Len(segments[r]) >= 1
        /\ pc[r] = "nosegs" =>
              /\ res[r].statusCode = 400
              /\ res[r].body = "json"
              /\ res[r].sends = 1
              /\ segmentsListFile[r] = <<>>
              /\ OwnedFiles(r) = {}
              /\ res[r].disposition = ""
              /\ res[r].contentType # "video/mp4"
              /\ ~invoked[r]

EmptyManifestWitness ==
    \E r \in Reqs : pc[r] = "nosegs" /\ res[r].statusCode = 400

RECURSIVE SplitLines(_)
SplitLines(s) ==
    LET I == {i \in 1..Len(s) : s[i] = Newline}
    IN  IF I = {} THEN <<s>>
        ELSE LET k == CHOOSE i \in I : \A j \in I : i =< j
             IN  <<SubSeq(s, 1, k - 1)>> \o SplitLines(SubSeq(s, k + 1, Len(s)))

Letters ==
    {"a", "b", "c", "d", "e", "f", "g", "h", "i", "j", "k", "l", "m",
     "n", "o", "p", "q", "r", "s", "t", "u", "v", "w", "x", "y", "z"}
Digits == {"0", "1", "2", "3", "4", "5", "6", "7", "8", "9"}

(* the URI begins with a scheme: a letter, then letters, digits, + - ., then : *)
HasScheme(s) ==
    \E k \in 2..Len(s) :
        /\ s[k] = ":"
        /\ s[1] \in Letters
        /\ \A j \in 2..(k - 1) : s[j] \in Letters \cup Digits \cup {"+", "-", "."}

(* the manifest URL up to and including its final slash *)
UpToFinalSlash(u) ==
    LET I == {i \in 1..Len(u) : u[i] = "/"}
    IN  IF I = {} THEN <<>> ELSE SubSeq(u, 1, CHOOSE i \in I : \A j \in I : j =< i)

ClaimedUrl(u, uri) == IF HasScheme(uri) THEN uri ELSE UpToFinalSlash(u) \o uri

(* C8: in the written concat list every segment URI that has a scheme is
   used unchanged and every other URI is the base URL followed by the URI. *)
SegmentResolution ==
    \A r \in Reqs :
        pc[r] = "headers" =>
            LET lines == SplitLines(fs[segmentsListFile[r]].content)
            IN  \A i \in 1..Len(segments[r]) :
                   /\ i =< Len(lines)
                   /\ lines[i] = FilePrefix \o ClaimedUrl(url[r], segments[r][i].uri) \o Quote

(* C9: the concat list written for n >= 1 segments has exactly n lines
   separated by newlines, the i-th being file '<resolved URI of segment i>',
   in manifest order and with repeated URIs kept. *)
ConcatListShape ==
    \A r \in Reqs :
        pc[r] = "headers" =>
            LET lines == SplitLines(fs[segmentsListFile[r]].content)
            IN  /\ Len(lines) = Len(segments[r])
                /\ \A i \in 1..Len(segments[r]) :
                      lines[i] = FilePrefix
                                   \o SegmentUrl(UpToFinalSlash(url[r]), segments[r][i])
                                   \o Quote

ConcatListWitness ==
    \E r \in Reqs :
        /\ pc[r] = "headers"
        /\ Len(segments[r]) >= 2
        /\ segments[r][1] = segments[r][2]
        /\ Len(SplitLines(fs[segmentsListFile[r]].content)) = Len(segments[r])

(* C10: the steps of a request run in order and the streaming headers are set
   only after the concat list was written, right before ffmpeg starts: no
   request answered with a JSON error has the streaming headers set, a 200
   status or a started ffmpeg. *)
NoPartialSuccess ==
    \A r \in Reqs :
        /\ res[r].body = "json" =>
              /\ res[r].statusCode >= 400
              /\ res[r].disposition = ""
              /\ ~invoked[r]
        /\ pc[r] \in {"fetching", "parse", "tempdir", "build", "headers", "spawn", "running"} =>
              Includes(url[r], M3u8Ext)
        /\ pc[r] \in {"tempdir", "build", "headers", "spawn", "running"} =>
              Len(segments[r]) >= 1
        /\ pc[r] \in {"headers", "spawn", "running"} =>
              segmentsListFile[r] # <<>> /\ segmentsList[r] # <<>>
        /\ res[r].disposition # "" =>
              /\ pc[r] \in {"spawn", "running", "spawnerr", "fferror", "ffend"}
              /\ segmentsListFile[r] # <<>>
        /\ invoked[r] => res[r].disposition # ""

NoPartialSuccessWitness ==
    /\ \E r \in Reqs : pc[r] = "writeerr" /\ res[r].body = "json"
                       /\ res[r].statusCode = 500
    /\ \E r \in Reqs : pc[r] = "running" /\ res[r].disposition # ""

====
